---------------------------- MODULE Spec2Model ----------------------------
(***************************************************************************)
(* Model of T1MFDiscretised (src/src/type1/sets/t1mf_discretised.rs), the  *)
(* point-sampled type-1 membership function of Fuzzy_Rust.                 *)
(*                                                                         *)
(* f64 values are modelled as exact extended rationals <<n, d>>:           *)
(*   d > 0  : the finite value n/d in lowest terms;                        *)
(*   <<1,0>>, <<-1,0>> : +infinity, -infinity;   <<0,0>> : NaN.            *)
(* Arithmetic and comparisons follow IEEE-754 on these values except for   *)
(* rounding and the sign of zero, which the model does not represent.      *)
(* The samples and arguments of the model are finite, never NaN, and any   *)
(* two distinct x among them differ by more than f64::EPSILON.             *)
(* A Tuple is a record [left, right]; a sample stores the degree in left   *)
(* and the domain value x in right, as the source does.                    *)
(* Option<T> is modelled as a sequence: <<>> is None, <<v>> is Some(v).    *)
(***************************************************************************)
EXTENDS Integers, Sequences, FiniteSets, TLC

VARIABLES mf, inserted, call

vars == <<mf, inserted, call>>

---------------------------------------------------------------------------
(* Bounds of the model                                                     *)

\* largest number of samples the vector `set` holds in the model
MaxPoints == 3

\* largest batch handed to add_points / new
MaxBatch == 2

---------------------------------------------------------------------------
(* f64 arithmetic                                                          *)

RECURSIVE GCD(_, _)
GCD(a, b) == IF b = 0 THEN a ELSE GCD(b, a % b)

AbsInt(n) == IF n < 0 THEN -n ELSE n

SignInt(n) == IF n < 0 THEN -1 ELSE IF n > 0 THEN 1 ELSE 0

\* the f64 with value n/d (d may be 0 or negative), in canonical form
Norm(n, d) ==
    IF d = 0 THEN <<SignInt(n), 0>>
    ELSE LET g == GCD(AbsInt(n), AbsInt(d))
             s == IF d < 0 THEN -1 ELSE 1
         IN  <<(s * n) \div g, (s * d) \div g>>

F(n) == <<n, 1>>

NAN == <<0, 0>>
INFINITY == <<1, 0>>
NEG_INFINITY == <<-1, 0>>

IsNaN(a) == a = NAN
IsInf(a) == a[2] = 0 /\ a[1] # 0

Neg(a) == <<-a[1], a[2]>>

Add(a, b) ==
    IF IsNaN(a) \/ IsNaN(b) THEN NAN
    ELSE IF IsInf(a) /\ IsInf(b) THEN (IF a = b THEN a ELSE NAN)
    ELSE IF IsInf(a) THEN a
    ELSE IF IsInf(b) THEN b
    ELSE Norm(a[1] * b[2] + b[1] * a[2], a[2] * b[2])

Sub(a, b) == Add(a, Neg(b))

Mul(a, b) == Norm(a[1] * b[1], a[2] * b[2])

\* 1/b: 1/0 is +infinity (the model's zero is unsigned), 1/infinity is 0
Recip(b) == Norm(b[2], b[1])

Div(a, b) == Mul(a, Recip(b))

Abs(a) == <<AbsInt(a[1]), a[2]>>

\* a < b on f64: false as soon as one side is NaN
Lt(a, b) ==
    IF IsNaN(a) \/ IsNaN(b) THEN FALSE
    ELSE IF a[2] = 0 /\ b[2] = 0 THEN a[1] < b[1]
    ELSE a[1] * b[2] < b[1] * a[2]

Gt(a, b) == Lt(b, a)

Ge(a, b) == ~IsNaN(a) /\ ~IsNaN(b) /\ ~Lt(a, b)

Le(a, b) == Ge(b, a)

\* f64::max: the other operand when one is NaN
Max(a, b) == IF IsNaN(a) THEN b ELSE IF IsNaN(b) THEN a ELSE IF Lt(a, b) THEN b ELSE a

\* std::f64::EPSILON is 2^-52.  Every two distinct values the model computes
\* differ by far more than that, so any positive value below the model's
\* resolution decides |a - b| < EPSILON the same way; 2^-20 keeps the
\* products inside TLC's integers.
EPSILON == <<1, 1048576>>

\* (a - b).abs() < std::f64::EPSILON
Close(a, b) == Lt(Abs(Sub(a, b)), EPSILON)

---------------------------------------------------------------------------
(* Tuple and the T1MFDiscretised instance                                  *)

\* Tuple::new(left, right)
Tuple(l, r) == [left |-> l, right |-> r]

\* usize as f64
AsF64(n) == F(n)

\* the default of alpha_cut_disc_level
DefaultDiscLevel == 60

\* the value of alpha_cut_precision_limit, 0.01
alpha_cut_precision_limit == <<1, 100>>

\* the fields of Self as new() sets them, before the optional points are added
NewInstance ==
    [ sorted               |-> FALSE,
      left_shoulder        |-> FALSE,
      right_shoulder       |-> FALSE,
      left_shoulder_start  |-> F(0),
      right_shoulder_start |-> F(0),
      alpha_cut_disc_level |-> DefaultDiscLevel,
      support              |-> Tuple(F(0), F(0)),
      set                  |-> <<>> ]

\* the result of a &mut self method: the value returned and the instance after
Result(r, s) == [ret |-> r, self |-> s]

None == <<>>
Some(v) == <<v>>

RemoveAt(seq, i) == SubSeq(seq, 1, i - 1) \o SubSeq(seq, i + 1, Len(seq))

\* Vec::push for every element of ps, then sorted = false
add_points(s, ps) == [s EXCEPT !.set = s.set \o ps, !.sorted = FALSE]

\* Vec::push(p), then sorted = false
add_point(s, p) == [s EXCEPT !.set = Append(s.set, p), !.sorted = FALSE]

\* one step of a stable insertion: p goes behind every element whose x is <= p's
RECURSIVE InsertByX(_, _)
InsertByX(seq, p) ==
    IF seq = <<>> THEN <<p>>
    ELSE IF Lt(p.right, Head(seq).right) THEN <<p>> \o seq
    ELSE <<Head(seq)>> \o InsertByX(Tail(seq), p)

\* slice::sort_by(|a, b| a.right.partial_cmp(&b.right)): stable, ascending by x
RECURSIVE SortByRight(_)
SortByRight(seq) ==
    IF seq = <<>> THEN <<>>
    ELSE InsertByX(SortByRight(SubSeq(seq, 1, Len(seq) - 1)), seq[Len(seq)])

\* MergeLoop as it would be if a merge dropped the later sample without
\* taking the maximum of the two degrees
RECURSIVE MergeLoop_DropLater(_, _, _)
MergeLoop_DropLater(set, last_x, i) ==
    IF i > Len(set) THEN set
    ELSE IF Close(set[i].right, last_x)
         THEN MergeLoop_DropLater(RemoveAt(set, i), last_x, i)
         ELSE MergeLoop_DropLater(set, set[i].right, i + 1)

\* the merge loop of sort(); i is the 1-based position of the source's set[i]
RECURSIVE MergeLoop(_, _, _)
MergeLoop(set, last_x, i) ==
    IF i > Len(set) THEN set
    ELSE IF Close(set[i].right, last_x)
         THEN MergeLoop(
                RemoveAt([set EXCEPT ![i - 1].left = Max(set[i - 1].left, set[i].left)], i),
                last_x, i)
         ELSE MergeLoop(set, set[i].right, i + 1)

\* the sort and merge of sort() once the samples are ordered by x: the cached
\* support is set from the first and last sample, then duplicates are merged
SortBody(s, ordered) ==
    [s EXCEPT
        !.support = Tuple(ordered[1].right, ordered[Len(ordered)].right),
        !.sorted  = TRUE,
        !.set     = MergeLoop(ordered, ordered[1].right, 2)]

\* T1MFDiscretised::sort
sort(s) ==
    IF ~s.sorted /\ s.set # <<>> THEN SortBody(s, SortByRight(s.set)) ELSE s

\* get_support() after its call of sort(): t is the sorted instance
SupportOfSorted(t) ==
    IF t.left_shoulder
    THEN Result(Tuple(NEG_INFINITY, t.set[Len(t.set)].right), t)
    ELSE IF t.right_shoulder
    THEN Result(Tuple(t.set[1].right, INFINITY), t)
    ELSE Result(Tuple(t.set[1].right, t.set[Len(t.set)].right), t)

\* T1MFDiscretised::get_support (the recomputed interval)
get_support(s) ==
    IF s.set = <<>> THEN Result(Tuple(F(0), F(0)), s) ELSE SupportOfSorted(sort(s))

\* interpolate as it would be with the ratio a taken upside down
interpolate_InverseRatio(s, x0, x1, x2) ==
    LET numerator   == Sub(s.set[x2].right, s.set[x0].right)
        denominator == Sub(x1, s.set[x0].right)
        a           == Div(denominator, numerator)
    IN  Sub(s.set[x0].left, Div(Sub(s.set[x0].left, s.set[x2].left), a))

\* T1MFDiscretised::interpolate; x0 and x2 are 1-based positions in set
interpolate(s, x0, x1, x2) ==
    LET numerator   == Sub(s.set[x2].right, s.set[x0].right)
        denominator == Sub(x1, s.set[x0].right)
        a           == Div(numerator, denominator)
    IN  Sub(s.set[x0].left, Div(Sub(s.set[x0].left, s.set[x2].left), a))

\* the scan of get_fs as it would be without the branch for an exact match
RECURSIVE ScanFs_NoExactMatch(_, _, _)
ScanFs_NoExactMatch(s, x, i) ==
    IF i > Len(s.set) THEN F(-1)
    ELSE IF Gt(s.set[i].right, x)
         THEN (IF i = 1 THEN s.set[i].left ELSE interpolate(s, i - 1, x, i))
         ELSE ScanFs_NoExactMatch(s, x, i + 1)

\* the scan of get_fs from position i on; -1 when it runs off the end
RECURSIVE ScanFs(_, _, _)
ScanFs(s, x, i) ==
    IF i > Len(s.set) THEN F(-1)
    ELSE IF Gt(s.set[i].right, x)
         THEN (IF i = 1 THEN s.set[i].left ELSE interpolate(s, i - 1, x, i))
         ELSE IF Close(s.set[i].right, x) THEN s.set[i].left
         ELSE ScanFs(s, x, i + 1)

\* get_fs from its call of sort() on: t is the sorted instance
FsScan(t, x) == Result(ScanFs(t, x, 1), t)

\* the support check of get_fs as it would be if it tested the low bound only
FsInSupport_LowBoundOnly(g, x) ==
    IF Lt(x, g.ret.left) THEN Result(F(0), g.self) ELSE FsScan(sort(g.self), x)

\* get_fs from the support check on: g is what get_support() returned
FsInSupport(g, x) ==
    IF Lt(x, g.ret.left) \/ Gt(x, g.ret.right)
    THEN Result(F(0), g.self)
    ELSE FsScan(sort(g.self), x)

\* the shoulder checks and the scan, entered when x is inside the support
FsShouldersThenScan(s, x) ==
    IF s.left_shoulder /\ Lt(x, s.left_shoulder_start) THEN Result(F(1), s)
    ELSE IF s.right_shoulder /\ Gt(x, s.right_shoulder_start) THEN Result(F(1), s)
    ELSE FsScan(sort(s), x)

\* the support check placed before the shoulder checks
FsSupportThenShoulders(g, x) ==
    IF Lt(x, g.ret.left) \/ Gt(x, g.ret.right)
    THEN Result(F(0), g.self)
    ELSE FsShouldersThenScan(g.self, x)

\* get_fs as it would be if the shoulder checks came after the support check
get_fs_SupportCheckFirst(s, x) ==
    IF s.set = <<>> THEN Result(F(-1), s)
    ELSE FsSupportThenShoulders(get_support(s), x)

\* T1MFDiscretised::get_fs
get_fs(s, x) ==
    IF s.set = <<>> THEN Result(F(-1), s)
    ELSE IF s.left_shoulder /\ Lt(x, s.left_shoulder_start) THEN Result(F(1), s)
    ELSE IF s.right_shoulder /\ Gt(x, s.right_shoulder_start) THEN Result(F(1), s)
    ELSE FsInSupport(get_support(s), x)

\* first position from the left whose degree is 1.0: its x, else the default
RECURSIVE FirstFull(_, _, _)
FirstFull(set, i, dflt) ==
    IF i > Len(set) THEN dflt
    ELSE IF Close(set[i].left, F(1)) THEN set[i].right
    ELSE FirstFull(set, i + 1, dflt)

\* first position from the right whose degree is 1.0: its x, else the default
RECURSIVE LastFull(_, _, _)
LastFull(set, i, dflt) ==
    IF i < 1 THEN dflt
    ELSE IF Close(set[i].left, F(1)) THEN set[i].right
    ELSE LastFull(set, i - 1, dflt)

\* current_step after k passes of a probe loop, that is start moved k times
\* by step.  In the exact arithmetic of the model (infinities and NaN
\* included) the k-fold addition is start + k * step.
ProbeAt(start, step, k) == IF k = 0 THEN start ELSE Add(start, Mul(F(k), step))

\* a probe loop of get_alpha_cut with n passes, the k-th at ProbeAt(start,
\* step, k): the first probe with get_fs(probe) - alpha >= 0, else dflt.
\* The loop runs on the instance s that get_support() left behind, which
\* get_fs leaves as it is (sort() is a no-op on it): every pass calls get_fs
\* on s, and the instance after the loop is the one after its last call.
RECURSIVE ProbeLoop(_, _, _, _, _, _, _)
ProbeLoop(s, alpha, start, step, k, n, dflt) ==
    IF k = n THEN Result(dflt, IF n = 0 THEN s ELSE get_fs(s, ProbeAt(start, step, n - 1)).self)
    ELSE IF Ge(Sub(get_fs(s, ProbeAt(start, step, k)).ret, alpha), F(0))
         THEN Result(ProbeAt(start, step, k), get_fs(s, ProbeAt(start, step, k)).self)
         ELSE ProbeLoop(s, alpha, start, step, k + 1, n, dflt)

\* the end of get_alpha_cut: r is the outcome of the right probe loop
AlphaCollapse(left_val, r) ==
    IF Lt(Abs(Sub(left_val, r.ret)), alpha_cut_precision_limit)
    THEN Result(Some(Tuple(left_val, left_val)), r.self)
    ELSE Result(Some(Tuple(left_val, r.ret)), r.self)

\* the right probe loop: l is the outcome of the left probe loop
AlphaRight(l, supp, step_size, alpha) ==
    AlphaCollapse(l.ret,
                  ProbeLoop(l.self, alpha, supp.right, Neg(step_size), 0,
                            l.self.alpha_cut_disc_level, supp.right))

\* the left probe loop
AlphaLeft(s, supp, step_size, alpha) ==
    AlphaRight(ProbeLoop(s, alpha, supp.left, step_size, 0,
                         s.alpha_cut_disc_level, supp.left),
               supp, step_size, alpha)

\* the search of get_alpha_cut for 0 < alpha < 1: g is what get_support() returned
AlphaSearch(g, alpha) ==
    AlphaLeft(g.self, g.ret,
              Div(Sub(g.ret.right, g.ret.left), AsF64(g.self.alpha_cut_disc_level - 1)),
              alpha)

\* the alpha = 0 branch: Some(self.get_support())
AlphaZero(g) == Result(Some(g.ret), g.self)

\* T1MFDiscretised::get_alpha_cut
get_alpha_cut(s, alpha) ==
    IF Close(alpha, F(0)) THEN AlphaZero(get_support(s))
    ELSE IF Close(alpha, F(1))
    THEN Result(Some(Tuple(FirstFull(s.set, 1, F(0)), LastFull(s.set, Len(s.set), F(0)))), s)
    ELSE AlphaSearch(get_support(s), alpha)

\* T1MFDiscretised::get_points
get_points(s) == LET t == sort(s) IN Result(t.set, t)

\* T1MFDiscretised::get_point_at; index is 0-based as in the source
get_point_at(s, index) ==
    LET t == sort(s)
    IN  Result(IF index < Len(t.set) THEN Some(t.set[index + 1]) ELSE None, t)

\* the inner loop of get_peak: run over the samples whose degree ties y
RECURSIVE PlateauEnd(_, _, _, _)
PlateauEnd(set, i, y, second_x) ==
    IF i <= Len(set) /\ Close(set[i].left, y)
    THEN PlateauEnd(set, i + 1, y, set[i].right)
    ELSE second_x

\* the outer loop of get_peak; i is the 1-based position of the source's set[i]
RECURSIVE PeakLoop(_, _, _, _)
PeakLoop(set, i, y_value_at_current_peak, x_coordinate_of_peak) ==
    IF i > Len(set) THEN x_coordinate_of_peak
    ELSE IF Gt(set[i].left, y_value_at_current_peak)
         THEN PeakLoop(set, i + 1, set[i].left, set[i].right)
         ELSE IF Close(set[i].left, y_value_at_current_peak)
              THEN Div(Add(x_coordinate_of_peak,
                           PlateauEnd(set, i, y_value_at_current_peak, set[i].right)),
                       F(2))
              ELSE PeakLoop(set, i + 1, y_value_at_current_peak, x_coordinate_of_peak)

\* T1MFDiscretised::get_peak
get_peak(s) ==
    LET t == sort(s)
    IN  IF t.set = <<>> THEN Result(None, t)
        ELSE Result(Some(PeakLoop(t.set, 2, t.set[1].left, t.set[1].right)), t)

\* one line of to_string_rep per sample: "{left} / {right}\n"
RECURSIVE Lines(_)
Lines(set) ==
    IF set = <<>> THEN <<>>
    ELSE <<<<set[1].left, "/", set[1].right>>>> \o Lines(Tail(set))

\* T1MFDiscretised::to_string_rep; the string is kept as its sequence of lines
to_string_rep(s) == LET t == sort(s) IN Result(Lines(t.set), t)

RECURSIVE SumNum(_)
SumNum(set) ==
    IF set = <<>> THEN F(0)
    ELSE Add(SumNum(SubSeq(set, 1, Len(set) - 1)),
             Mul(set[Len(set)].right, set[Len(set)].left))

RECURSIVE SumDen(_)
SumDen(set) ==
    IF set = <<>> THEN F(0)
    ELSE Add(SumDen(SubSeq(set, 1, Len(set) - 1)), set[Len(set)].left)

\* T1MFDiscretised::get_defuzzified_centroid
get_defuzzified_centroid(s) ==
    LET g           == get_points(s)
        numerator   == SumNum(g.ret)
        denominator == SumDen(g.ret)
    IN  Result(IF denominator = F(0) THEN F(0) ELSE Div(numerator, denominator), g.self)

\* T1MFDiscretised::set_left_shoulder_set
set_left_shoulder_set(s, shoulder_start) ==
    [s EXCEPT !.left_shoulder = TRUE,
              !.left_shoulder_start = shoulder_start,
              !.support.left = NEG_INFINITY]

\* T1MFDiscretised::set_right_shoulder_set
set_right_shoulder_set(s, shoulder_start) ==
    [s EXCEPT !.right_shoulder = TRUE,
              !.right_shoulder_start = shoulder_start,
              !.support.right = INFINITY]

\* T1MFDiscretised::new
new(points) ==
    IF points = None THEN NewInstance
    ELSE sort(add_points(NewInstance, points[1]))

\* <T1MFDiscretised as T1MFPrototype>::get_support: the cached field
cached_support(s) == s.support

---------------------------------------------------------------------------
(* Inputs of the model                                                     *)

\* the degrees and domain values of the samples callers insert: those of the
\* triangular set of main.rs, (0, -1), (1, 0), (0, 1), in every combination
Degrees == {F(0), F(1)}

XValues == {F(-1), F(0), F(1)}

Points == {Tuple(d, x) : d \in Degrees, x \in XValues}

Batches == UNION {[1..n -> Points] : n \in 0..MaxBatch}

\* the x of get_fs: the sample positions, the points half way between them
\* and one point beyond each end
QueryXs == {<<-3, 2>>, F(-1), <<-1, 2>>, F(0), <<1, 2>>, F(1), <<3, 2>>}

LeftShoulderStarts == {<<-1, 2>>}

RightShoulderStarts == {<<1, 2>>}

Alphas == {F(0), <<1, 2>>, F(1)}

---------------------------------------------------------------------------
(* The state machine: one instance, its callers' operations                *)
(*   mf       : the T1MFDiscretised instance                               *)
(*   inserted : every sample ever handed to new / add_point / add_points   *)
(*   call     : the last query, its argument and what it returned          *)

Unit == <<>>

Call(op, arg, ret) == [op |-> op, arg |-> arg, ret |-> ret]

\* the constructor and the methods that return nothing leave no result behind
NoCall == Call("none", Unit, Unit)

Range(seq) == {seq[i] : i \in 1..Len(seq)}

Init ==
    \E points \in {None} \cup {Some(ps) : ps \in Batches} :
        /\ mf = new(points)
        /\ inserted = IF points = None THEN {} ELSE Range(points[1])
        /\ call = NoCall

AddPoint ==
    \E p \in Points :
        /\ Len(mf.set) < MaxPoints
        /\ mf' = add_point(mf, p)
        /\ inserted' = inserted \cup {p}
        /\ call' = NoCall

AddPoints ==
    \E ps \in Batches :
        /\ Len(mf.set) + Len(ps) <= MaxPoints
        /\ mf' = add_points(mf, ps)
        /\ inserted' = inserted \cup Range(ps)
        /\ call' = NoCall

SetLeftShoulderSet ==
    \E v \in LeftShoulderStarts :
        /\ mf' = set_left_shoulder_set(mf, v)
        /\ call' = NoCall
        /\ UNCHANGED inserted

SetRightShoulderSet ==
    \E v \in RightShoulderStarts :
        /\ mf' = set_right_shoulder_set(mf, v)
        /\ call' = NoCall
        /\ UNCHANGED inserted

\* a &mut self method that returns a value: the instance and the call record
Query(op, arg, res) ==
    /\ mf' = res.self
    /\ call' = Call(op, arg, res.ret)
    /\ UNCHANGED inserted

Sort == Query("sort", Unit, Result(Unit, sort(mf)))

GetFs == \E x \in QueryXs : Query("get_fs", x, get_fs(mf, x))

GetAlphaCut == \E alpha \in Alphas : Query("get_alpha_cut", alpha, get_alpha_cut(mf, alpha))

GetPeak == Query("get_peak", Unit, get_peak(mf))

GetSupport == Query("get_support", Unit, get_support(mf))

GetPoints == Query("get_points", Unit, get_points(mf))

GetPointAt == \E index \in 0..MaxPoints : Query("get_point_at", index, get_point_at(mf, index))

GetDefuzzifiedCentroid == Query("get_defuzzified_centroid", Unit, get_defuzzified_centroid(mf))

ToStringRep == Query("to_string_rep", Unit, to_string_rep(mf))

Next ==
    \/ AddPoint
    \/ AddPoints
    \/ SetLeftShoulderSet
    \/ SetRightShoulderSet
    \/ Sort
    \/ GetFs
    \/ GetAlphaCut
    \/ GetPeak
    \/ GetSupport
    \/ GetPoints
    \/ GetPointAt
    \/ GetDefuzzifiedCentroid
    \/ ToStringRep

Spec == Init /\ [][Next]_vars

TypeOK == Len(mf.set) <= MaxPoints

\* what ProbeLoop relies on: get_fs leaves the instance that get_support()
\* returned as it is, at the sample positions and at every probe point
ProbeLeavesInstance ==
    LET g == get_support(mf)
    IN  \A x \in QueryXs \cup {ProbeAt(g.ret.left, F(1), k) : k \in 0..2}
                       \cup {g.ret.left, g.ret.right, NAN} :
            get_fs(g.self, x).self = g.self

---------------------------------------------------------------------------
(* Vocabulary of the properties                                            *)

\* the methods the callers use to read the set
QueryOps ==
    {"get_fs", "get_alpha_cut", "get_peak", "get_support", "get_points",
     "get_point_at", "get_defuzzified_centroid", "to_string_rep"}

\* sorted by x with no x held twice
StrictlyAscending(set) ==
    \A i \in 1..(Len(set) - 1) : Lt(set[i].right, set[i + 1].right)

\* the samples the instance retains once sorted and merged
Retained(s) == sort(s).set

\* x lies where a shoulder of s saturates the membership
Saturated(s, x) ==
    \/ s.left_shoulder /\ Lt(x, s.left_shoulder_start)
    \/ s.right_shoulder /\ Gt(x, s.right_shoulder_start)

\* x lies outside the interval get_support() returns for s
OutsideSupport(s, x) ==
    LET supp == get_support(s).ret IN Lt(x, supp.left) \/ Gt(x, supp.right)

\* the greatest degree among the samples of a non-empty collection
MaxDegree(samples) ==
    CHOOSE d \in {p.left : p \in samples} : \A p \in samples : Le(p.left, d)

---------------------------------------------------------------------------
(* C1.  Immediately after any query (get_fs, get_alpha_cut, get_peak,      *)
(* get_support, get_points, get_point_at, get_defuzzified_centroid,        *)
(* to_string_rep) on a non-empty set, the stored samples are strictly      *)
(* ascending by x: sorted, and no two of them share an x.                  *)
C1_SamplesAscendingAfterQuery ==
    (call.op \in QueryOps /\ mf.set # <<>>) => StrictlyAscending(mf.set)

---------------------------------------------------------------------------
(* C2.  Merge law: once a sort has run after the insertions, every x ever  *)
(* inserted is held by exactly one retained sample, and the degree of that *)
(* sample is the greatest degree ever inserted at that x.                  *)
C2_MergeLaw ==
    mf.sorted =>
        \A q \in inserted :
            LET at  == {i \in 1..Len(mf.set) : mf.set[i].right = q.right}
                all == {p \in inserted : p.right = q.right}
            IN  /\ Cardinality(at) = 1
                /\ \A i \in at : mf.set[i].left = MaxDegree(all)

\* a sort-triggering query has returned on a set into which three samples
\* were inserted, two of them at one x with different degrees
C2_Witness ==
    /\ call.op = "get_points"
    /\ mf.sorted
    /\ Cardinality(inserted) = 3
    /\ Len(mf.set) = 2
    /\ \E p, q \in inserted : p.right = q.right /\ p.left # q.left

---------------------------------------------------------------------------
(* C3.  Exactness.                                                         *)

\* the positions of the retained samples of s that sit at x
At(s, x) == {i \in 1..Len(Retained(s)) : Retained(s)[i].right = x}

(* C3 as stated: whatever the shoulder settings, get_fs at the x of a      *)
(* retained sample returns the degree of that sample.                      *)
C3_ExactnessAnyShoulder ==
    call.op = "get_fs" =>
        \A i \in At(mf, call.arg) : call.ret = Retained(mf)[i].left

(* C3 as amended: get_fs at the x of a retained sample returns the degree  *)
(* of that sample, unless x lies where a shoulder saturates, where it      *)
(* returns 1.0.                                                            *)
C3_Exactness ==
    call.op = "get_fs" =>
        \A i \in At(mf, call.arg) :
            call.ret = IF Saturated(mf, call.arg) THEN F(1) ELSE Retained(mf)[i].left

\* get_fs has returned the degree 0 of a retained sample of a shoulder set,
\* at an x the shoulder does not saturate
C3_Witness ==
    /\ call.op = "get_fs"
    /\ mf.left_shoulder
    /\ ~Saturated(mf, call.arg)
    /\ \E i \in At(mf, call.arg) : Retained(mf)[i].left = F(0) /\ call.ret = F(0)

---------------------------------------------------------------------------
(* C4.  Interpolation law: on a set without shoulders, for x strictly      *)
(* between two adjacent retained samples (x0, d0) and (x1, d1), get_fs(x)  *)
(* is d0 + (d1 - d0) * (x - x0) / (x1 - x0), and so is the value of        *)
(* interpolate for these two samples.                                      *)

\* d0 + (d1 - d0) * (x - x0) / (x1 - x0)
OnTheLine(p0, p1, x) ==
    Add(p0.left, Div(Mul(Sub(p1.left, p0.left), Sub(x, p0.right)),
                     Sub(p1.right, p0.right)))

\* the positions i such that x lies strictly between retained samples i and i + 1
Between(s, x) ==
    {i \in 1..(Len(Retained(s)) - 1) :
        Lt(Retained(s)[i].right, x) /\ Lt(x, Retained(s)[i + 1].right)}

C4_InterpolationLaw ==
    (call.op = "get_fs" /\ ~mf.left_shoulder /\ ~mf.right_shoulder) =>
        \A i \in Between(mf, call.arg) :
            LET line == OnTheLine(Retained(mf)[i], Retained(mf)[i + 1], call.arg)
            IN  /\ call.ret = line
                /\ interpolate(sort(mf), i, call.arg, i + 1) = line

\* get_fs has returned 1/4 a quarter of the way up the segment from
\* (x = -1, degree 0) to (x = 1, degree 1)
C4_Witness ==
    /\ call.op = "get_fs"
    /\ ~mf.left_shoulder /\ ~mf.right_shoulder
    /\ call.arg = <<-1, 2>>
    /\ call.ret = <<1, 4>>
    /\ Between(mf, call.arg) # {}

---------------------------------------------------------------------------
(* C5.  get_peak returns None exactly when the set is empty; otherwise the *)
(* x it returns lies between the smallest and the largest x of the         *)
(* retained samples whose degree is the greatest degree of the set.        *)
C5_PeakAtMaximum ==
    call.op = "get_peak" =>
        /\ (call.ret = None) <=> (mf.set = <<>>)
        /\ call.ret # None =>
             LET samples == Range(Retained(mf))
                 top     == {p \in samples : p.left = MaxDegree(samples)}
             IN  /\ \E p \in top : Le(p.right, call.ret[1])
                 /\ \E p \in top : Le(call.ret[1], p.right)

---------------------------------------------------------------------------
(* C6.  Boundary policy outside the support.                               *)

(* C6 as stated: on a non-empty set, with whatever shoulders, get_fs(x) is *)
(* exactly 0.0 for every x outside the interval get_support() returns.     *)
C6_ZeroOutsideSupportAnyShoulder ==
    (call.op = "get_fs" /\ mf.set # <<>> /\ OutsideSupport(mf, call.arg)) =>
        call.ret = F(0)

(* C6 as amended: on a non-empty set, get_fs(x) is exactly 0.0 for every x *)
(* outside the interval get_support() returns that no shoulder saturates   *)
(* (not x < left_shoulder_start with left_shoulder set, not                *)
(* x > right_shoulder_start with right_shoulder set).                      *)
C6_ZeroOutsideSupport ==
    (/\ call.op = "get_fs"
     /\ mf.set # <<>>
     /\ OutsideSupport(mf, call.arg)
     /\ ~Saturated(mf, call.arg)) =>
        call.ret = F(0)

\* get_fs has returned 0.0 left of the first sample of a right-shoulder set
C6_Witness ==
    /\ call.op = "get_fs"
    /\ mf.set # <<>>
    /\ mf.right_shoulder
    /\ OutsideSupport(mf, call.arg)
    /\ ~Saturated(mf, call.arg)
    /\ call.ret = F(0)

---------------------------------------------------------------------------
(* C7.  Shoulder saturation.                                               *)

(* C7 as stated: with left_shoulder set, get_fs(x) is exactly 1.0 for      *)
(* every x < left_shoulder_start, and with right_shoulder set for every    *)
(* x > right_shoulder_start, whatever the samples.                         *)
C7_SaturationAnySamples ==
    (call.op = "get_fs" /\ Saturated(mf, call.arg)) => call.ret = F(1)

(* C7 as amended: on a non-empty sample set, with left_shoulder set,       *)
(* get_fs(x) is exactly 1.0 for every x < left_shoulder_start, and with    *)
(* right_shoulder set for every x > right_shoulder_start, whatever the     *)
(* samples; on an empty sample set get_fs returns -1.                      *)
C7_Saturation ==
    (call.op = "get_fs" /\ Saturated(mf, call.arg)) =>
        call.ret = IF mf.set = <<>> THEN F(-1) ELSE F(1)

\* get_fs has returned 1.0 right of right_shoulder_start on a set whose
\* samples all have degree 0
C7_Witness ==
    /\ call.op = "get_fs"
    /\ mf.right_shoulder /\ ~mf.left_shoulder
    /\ Gt(call.arg, mf.right_shoulder_start)
    /\ mf.set # <<>>
    /\ \A p \in Range(mf.set) : p.left = F(0)
    /\ call.ret = F(1)

---------------------------------------------------------------------------
(* C8.  For 0 < alpha < 1 on a non-empty set without shoulders, whenever   *)
(* get_alpha_cut(alpha) returns Some((l, r)): l <= r, get_fs(l) >= alpha   *)
(* and get_fs(r) >= alpha; and it returns no interval when no probe point  *)
(* of the support reaches alpha.                                           *)

\* the evenly spaced probe points of the support of s
ProbePoints(s) ==
    LET supp == get_support(s).ret
        n    == s.alpha_cut_disc_level
    IN  {Add(supp.left, Div(Mul(F(k), Sub(supp.right, supp.left)), F(n - 1))) :
            k \in 0..(n - 1)}

C8_AlphaCutReachesAlpha ==
    (/\ call.op = "get_alpha_cut"
     /\ Lt(F(0), call.arg) /\ Lt(call.arg, F(1))
     /\ ~mf.left_shoulder /\ ~mf.right_shoulder
     /\ mf.set # <<>>) =>
        /\ call.ret # None =>
             /\ Le(call.ret[1].left, call.ret[1].right)
             /\ Ge(get_fs(mf, call.ret[1].left).ret, call.arg)
             /\ Ge(get_fs(mf, call.ret[1].right).ret, call.arg)
        /\ (\A x \in ProbePoints(mf) : Lt(get_fs(mf, x).ret, call.arg)) =>
             call.ret = None

---------------------------------------------------------------------------
(* C9.  Once set_left_shoulder_set (set_right_shoulder_set) has been       *)
(* called, the low (high) bound of the support is -infinity (+infinity)    *)
(* in every later state, both in the cached support of the                 *)
(* T1MFPrototype accessor and in the interval get_support() recomputes.    *)
(* The flags are never cleared, so "once called" is "the flag is set".     *)
C9_ShoulderBoundInfinite ==
    /\ mf.left_shoulder =>
         /\ cached_support(mf).left = NEG_INFINITY
         /\ get_support(mf).ret.left = NEG_INFINITY
    /\ mf.right_shoulder =>
         /\ cached_support(mf).right = INFINITY
         /\ get_support(mf).ret.right = INFINITY

---------------------------------------------------------------------------
(* C10.  get_fs returns the sentinel -1 if and only if the sample set is   *)
(* empty: on a non-empty set, with whatever shoulders, the scan never runs *)
(* off the end.                                                            *)
C10_SentinelOnlyWhenEmpty ==
    call.op = "get_fs" => ((call.ret = F(-1)) <=> (mf.set = <<>>))

---------------------------------------------------------------------------
(* C11.  get_alpha_cut(1) does not depend on the insertion order: in any   *)
(* reachable state, also right after add_point / add_points with no sort   *)
(* in between, it returns (l, r) with l the smallest and r the largest x   *)
(* among the samples of degree exactly 1.0, hence l <= r; and it returns   *)
(* (0, 0) when no sample has degree exactly 1.0.                           *)

\* the x of the samples of s whose degree is exactly 1.0
FullXs(s) == {p.right : p \in {q \in Range(s.set) : q.left = F(1)}}

C11_AlphaOneOrderIndependent ==
    (call.op = "get_alpha_cut" /\ call.arg = F(1)) =>
        /\ call.ret # None
        /\ Le(call.ret[1].left, call.ret[1].right)
        /\ IF FullXs(mf) = {}
           THEN call.ret[1] = Tuple(F(0), F(0))
           ELSE /\ call.ret[1].left \in FullXs(mf)
                /\ call.ret[1].right \in FullXs(mf)
                /\ \A x \in FullXs(mf) :
                      Le(call.ret[1].left, x) /\ Le(x, call.ret[1].right)

===========================================================================
